---- MODULE Spec2Model ----
(***************************************************************************)
(* Model of src/app.py: a Streamlit voice-note script.  The note           *)
(* repository (assure_db_collection_exists, add_note_to_db,                *)
(* list_notes_from_db) talks to one shared Qdrant collection; every        *)
(* browser session runs the script top to bottom on each user event.       *)
(*                                                                         *)
(* Two specifications share the repository steps:                          *)
(*   Spec      one session running the whole script (lines 113-202);       *)
(*   SpecRepo  two callers invoking the three repository functions, their  *)
(*             store round-trips interleaved.                              *)
(* The API-key prompt (lines 31-42) is taken as passed, and the store is    *)
(* taken as reachable: of the store's errors only a missing collection and *)
(* a refused create_collection are modelled.                               *)
(***************************************************************************)
EXTENDS Integers, Sequences, FiniteSets, TLC

\* ------------------------------------------------------------ constants
EMBEDDING_DIM == 3072
QDRANT_COLLECTION_NAME == "notes"
\* limit=10 of scroll (line 90) and of search (line 102)
Limit == 10

\* ------------------------------------------------------------ bounds
\* add_note_to_db calls started in one behaviour
MaxAdds == 2
\* points a collection written by earlier processes already holds
Preload == 10

\* Python's None
None == "None"
\* a key that is not yet in st.session_state
Unset == "Unset"

Clients == {"c1", "c2"}
\* the session whose script runs are modelled statement block by block
Sessions == {"c1"}
NoteTexts == {"a", "b"}
\* recorded or uploaded audio, as mp3 bytes
Audio == {"x", "y"}

VARIABLES
    store,                  \* the Qdrant server: the "notes" collection
    pc, ret,                \* each client's position and return address
    note_audio_bytes_md5,   \* st.session_state, per session
    note_audio_bytes,
    note_text,
    note_audio_text,
    note_audio,             \* widget values of the current run
    uploaded_file,
    clicked,
    rendered,               \* buttons the last run put on the page
    arg,                    \* add_note_to_db's note_text / list_notes_from_db's query
    current_count,          \* locals of add_note_to_db
    vector,
    notes,                  \* locals of list_notes_from_db
    result,
    outcome,                \* how the last call / run ended
    calls,                  \* round-trips the current call has issued
    sawExists,              \* what collection_exists answered the current call
    createCalls,            \* create_collection calls the store has received
    bootRace,               \* a bootstrap call overlapped another one's check-then-create
    adds,                   \* add_note_to_db calls started
    added,                  \* points upserted so far: the add log
    lastAdd,                \* each client's last upserted point
    run,                    \* per client: consecutive undisturbed adds
    transcribed,            \* a transcribe action returned non-empty text in the session
    freshDraft              \* note_audio_text was transcribed after the last md5 change

vars == <<store, pc, ret, note_audio_bytes_md5, note_audio_bytes, note_text,
          note_audio_text, note_audio, uploaded_file, clicked, rendered, arg,
          current_count, vector, notes, result, outcome, calls, sawExists,
          createCalls, bootRace, adds, added, lastAdd, run, transcribed, freshDraft>>

sessionVars == <<note_audio_bytes_md5, note_audio_bytes, note_text, note_audio_text,
                 note_audio, uploaded_file, clicked, rendered, transcribed, freshDraft>>
addGhosts == <<adds, added, lastAdd, run>>
bootGhosts == <<sawExists, createCalls, bootRace>>
findLocals == <<notes, result>>
addLocals == <<current_count, vector>>

\* ------------------------------------------------------------ providers
\* get_embedding: the provider's vector for a text.  A vector is abstracted to
\* its dimension and the axis it points along.
get_embedding(text) ==
    [dim |-> EMBEDDING_DIM,
     axis |-> IF text = "a" THEN 1 ELSE IF text = "b" THEN 2 ELSE 3]

\* Distance.COSINE between two unit vectors of this abstraction
Cosine(u, v) == IF u.axis = v.axis THEN 1 ELSE 0

\* md5(...).hexdigest()
md5(bytes) == IF bytes = "x" THEN "9dd4" ELSE "4152"

\* ------------------------------------------------------------ store
NoCollection == [exists |-> FALSE, size |-> 0, distance |-> None, points |-> <<>>]

\* qdrant_client.create_collection(collection_name, VectorParams(size, distance))
CreateCollection ==
    [exists |-> TRUE, size |-> EMBEDDING_DIM, distance |-> "Cosine", points |-> <<>>]

\* qdrant_client.collection_exists(QDRANT_COLLECTION_NAME)
CollectionExists_Never(s) == FALSE

CollectionExists(s) == s.exists

\* qdrant_client.count(...).count
Count(s) == Cardinality(DOMAIN s.points)

PointStruct_NoIncrement(count, vec, text) ==
    [id |-> count, vector |-> vec, payload |-> [text |-> text]]

\* PointStruct(id=current_count + 1, vector=..., payload={"text": note_text})
PointStruct(count, vec, text) ==
    [id |-> count + 1, vector |-> vec, payload |-> [text |-> text]]

\* an insert that keeps the point already stored under the id
Upsert_KeepExisting(s, point) ==
    [s EXCEPT !.points =
        @ @@ (point.id :> [vector |-> point.vector, payload |-> point.payload])]

\* qdrant_client.upsert(points=[point]): insert, or replace the point of that id
Upsert(s, point) ==
    [s EXCEPT !.points =
        (point.id :> [vector |-> point.vector, payload |-> point.payload]) @@ s.points]

RECURSIVE Ascending(_)
\* the ids of S in ascending order
Ascending(S) ==
    IF S = {} THEN <<>>
    ELSE LET m == CHOOSE i \in S : \A j \in S : i <= j
         IN <<m>> \o Ascending(S \ {m})

RECURSIVE Ranked(_, _, _)
\* the ids of S by descending score, ties by ascending id
Ranked(S, points, qv) ==
    IF S = {} THEN <<>>
    ELSE LET best == CHOOSE i \in S : \A j \in S :
                        \/ Cosine(points[i].vector, qv) > Cosine(points[j].vector, qv)
                        \/ /\ Cosine(points[i].vector, qv) = Cosine(points[j].vector, qv)
                           /\ i <= j
         IN <<best>> \o Ranked(S \ {best}, points, qv)

Head_Unlimited(seq, n) == seq

\* the limit=... parameter: at most n entries
Head_(seq, n) == SubSeq(seq, 1, IF Len(seq) < n THEN Len(seq) ELSE n)

\* the page read from the second point on
Scroll_Offset(s, limit) ==
    LET ids == Head_(Tail(Ascending(DOMAIN s.points) \o <<0>>), limit)
        kept == SelectSeq(ids, LAMBDA i : i # 0)
    IN [k \in 1..Len(kept) |-> [id |-> kept[k], payload |-> s.points[kept[k]].payload]]

\* qdrant_client.scroll(limit)[0]: the first page, ordered by id
Scroll(s, limit) ==
    LET ids == Head_(Ascending(DOMAIN s.points), limit)
    IN [k \in 1..Len(ids) |-> [id |-> ids[k], payload |-> s.points[ids[k]].payload]]

\* qdrant_client.search(query_vector, limit): nearest points, best first
Search(s, qv, limit) ==
    LET ids == Head_(Ranked(DOMAIN s.points, s.points, qv), limit)
    IN [k \in 1..Len(ids) |->
           [id |-> ids[k], payload |-> s.points[ids[k]].payload,
            score |-> Cosine(s.points[ids[k]].vector, qv)]]

\* a collection that earlier runs of this program filled: ids 1..n
Preloaded(n) ==
    [exists |-> TRUE, size |-> EMBEDDING_DIM, distance |-> "Cosine",
     points |-> [i \in 1..n |->
                    [vector |-> get_embedding("old"), payload |-> [text |-> "old"]]]]

\* ------------------------------------------------------------ initial state
NoCalls == [exists |-> 0, create |-> 0, count |-> 0, embed |-> 0, upsert |-> 0,
            scroll |-> 0, search |-> 0, failed |-> 0]
NoPoint == [id |-> 0, text |-> None, vector |-> None, count |-> 0]
NoRun == [base |-> 0, n |-> 0, dirty |-> FALSE]

InitClients ==
    /\ pc = [c \in Clients |-> "idle"]
    /\ ret = [c \in Clients |-> "idle"]
    /\ note_audio_bytes_md5 = [c \in Clients |-> Unset]
    /\ note_audio_bytes = [c \in Clients |-> Unset]
    /\ note_text = [c \in Clients |-> Unset]
    /\ note_audio_text = [c \in Clients |-> Unset]
    /\ note_audio = [c \in Clients |-> None]
    /\ uploaded_file = [c \in Clients |-> None]
    /\ clicked = [c \in Clients |-> None]
    /\ rendered = [c \in Clients |-> {}]
    /\ arg = [c \in Clients |-> None]
    /\ current_count = [c \in Clients |-> 0]
    /\ vector = [c \in Clients |-> None]
    /\ notes = [c \in Clients |-> <<>>]
    /\ result = [c \in Clients |-> <<>>]
    /\ outcome = [c \in Clients |-> "none"]
    /\ calls = [c \in Clients |-> NoCalls]
    /\ sawExists = [c \in Clients |-> None]
    /\ bootRace = FALSE
    /\ adds = 0
    /\ added = {}
    /\ lastAdd = [c \in Clients |-> NoPoint]
    /\ run = [c \in Clients |-> NoRun]
    /\ transcribed = [c \in Clients |-> FALSE]
    /\ freshDraft = [c \in Clients |-> FALSE]

\* a fresh deployment: the collection does not exist yet
Init ==
    /\ InitClients
    /\ store = NoCollection
    /\ createCalls = 0

\* The store outlives the process: it is either fresh, or holds the collection
\* that one earlier create_collection call made and earlier adds filled.
InitRepo ==
    /\ InitClients
    /\ \/ store = NoCollection /\ createCalls = 0
       \/ store = Preloaded(Preload) /\ createCalls = 1

\* ------------------------------------------------------------ call / return
\* entering a repository function: a fresh call record
Enter(c, entry, r) ==
    /\ pc' = [pc EXCEPT ![c] = entry]
    /\ ret' = [ret EXCEPT ![c] = r]
    /\ calls' = [calls EXCEPT ![c] = NoCalls]
    /\ sawExists' = [sawExists EXCEPT ![c] = None]
    /\ outcome' = [outcome EXCEPT ![c] = "none"]
    /\ notes' = [notes EXCEPT ![c] = <<>>]
    /\ result' = [result EXCEPT ![c] = <<>>]

\* the function's locals go out of scope
DropLocals(c) ==
    /\ current_count' = [current_count EXCEPT ![c] = 0]
    /\ vector' = [vector EXCEPT ![c] = None]

\* the function returns to its caller
Return(c) ==
    /\ pc' = [pc EXCEPT ![c] = ret[c]]
    /\ outcome' = [outcome EXCEPT ![c] = "ok"]
    /\ DropLocals(c)
    /\ UNCHANGED ret

\* an exception leaves the function and, uncaught, ends the script run
Raise(c, error) ==
    /\ pc' = [pc EXCEPT ![c] = "idle"]
    /\ outcome' = [outcome EXCEPT ![c] = error]
    /\ DropLocals(c)
    /\ UNCHANGED ret

Issued(c, op) == calls' = [calls EXCEPT ![c][op] = @ + 1]

\* ------------------------------------------------------------ assure_db_collection_exists
\* line 53: if not qdrant_client.collection_exists(QDRANT_COLLECTION_NAME)
BootCheck(c) ==
    /\ pc[c] = "boot"
    /\ Issued(c, "exists")
    /\ sawExists' = [sawExists EXCEPT ![c] = IF CollectionExists(store) THEN "yes" ELSE "no"]
    /\ IF CollectionExists(store)
       THEN /\ Return(c)
            /\ UNCHANGED bootRace
       ELSE /\ pc' = [pc EXCEPT ![c] = "create"]
            /\ bootRace' = (bootRace \/ \E d \in Clients \ {c} : pc[d] = "create")
            /\ UNCHANGED <<ret, outcome, addLocals>>
    /\ UNCHANGED <<store, createCalls, sessionVars, arg, findLocals, addGhosts>>

\* lines 55-61: create_collection; the server refuses a name that exists
BootCreate(c) ==
    /\ pc[c] = "create"
    /\ Issued(c, "create")
    /\ createCalls' = createCalls + 1
    /\ IF store.exists
       THEN /\ Raise(c, "StoreError")
            /\ UNCHANGED store
       ELSE /\ store' = CreateCollection
            /\ Return(c)
    /\ UNCHANGED <<sawExists, bootRace, sessionVars, arg, findLocals, addGhosts>>

\* ------------------------------------------------------------ add_note_to_db
\* lines 76-77: current_count = qdrant_client.count(...).count
AddCount(c) ==
    /\ pc[c] = "add_count"
    /\ Issued(c, "count")
    /\ IF store.exists
       THEN /\ current_count' = [current_count EXCEPT ![c] = Count(store)]
            /\ pc' = [pc EXCEPT ![c] = "add_embed"]
            /\ run' = [run EXCEPT ![c] =
                          IF @.dirty \/ @.n = 0
                          THEN [base |-> Count(store), n |-> 0, dirty |-> FALSE]
                          ELSE @]
            /\ UNCHANGED <<ret, outcome, vector>>
       ELSE /\ Raise(c, "StoreError")
            /\ UNCHANGED run
    /\ UNCHANGED <<store, sessionVars, arg, findLocals, bootGhosts,
                   adds, added, lastAdd>>

\* a provider call of the current function call raised
IssuedFailed(c, op) == calls' = [calls EXCEPT ![c][op] = @ + 1, ![c].failed = @ + 1]

\* the embedding error swallowed: the add goes on with a placeholder vector
AddEmbedFailed_Swallowed(c) ==
    /\ IssuedFailed(c, "embed")
    /\ vector' = [vector EXCEPT ![c] = [dim |-> EMBEDDING_DIM, axis |-> 0]]
    /\ pc' = [pc EXCEPT ![c] = "add_upsert"]
    /\ UNCHANGED <<ret, outcome, current_count>>

\* line 80 when openai_client.embeddings.create raises: nothing catches it
AddEmbedFailed(c) ==
    /\ IssuedFailed(c, "embed")
    /\ Raise(c, "EmbeddingError")

\* line 80: vector=get_embedding(text=note_text); the provider may fail
AddEmbed(c) ==
    /\ pc[c] = "add_embed"
    /\ \E ok \in BOOLEAN :
         IF ok
         THEN /\ Issued(c, "embed")
              /\ vector' = [vector EXCEPT ![c] = get_embedding(arg[c])]
              /\ pc' = [pc EXCEPT ![c] = "add_upsert"]
              /\ UNCHANGED <<ret, outcome, current_count>>
         ELSE AddEmbedFailed(c)
    /\ UNCHANGED <<store, sessionVars, arg, findLocals, bootGhosts, addGhosts>>

\* lines 78-85: build the point and upsert it
AddUpsert(c) ==
    /\ pc[c] = "add_upsert"
    /\ Issued(c, "upsert")
    /\ LET point == PointStruct(current_count[c], vector[c], arg[c])
           entry == [id |-> point.id, text |-> point.payload.text, vector |-> point.vector]
       IN /\ store' = Upsert(store, point)
          /\ lastAdd' = [lastAdd EXCEPT ![c] =
                            [id |-> point.id, text |-> point.payload.text,
                             vector |-> point.vector, count |-> current_count[c]]]
          /\ added' = added \cup {entry}
    /\ run' = [d \in Clients |->
                 IF d = c
                 THEN IF run[c].dirty THEN run[c] ELSE [run[c] EXCEPT !.n = @ + 1]
                 ELSE [run[d] EXCEPT !.dirty = TRUE]]
    /\ Return(c)
    /\ UNCHANGED <<sessionVars, arg, findLocals, bootGhosts, adds>>

\* ------------------------------------------------------------ list_notes_from_db
\* Python's "not query"
Falsy_NoneOnly(q) == q = None

Falsy(q) == q = None \/ q = ""

\* lines 90-97: one unfiltered page, every score None
FindScroll(c) ==
    /\ pc[c] = "find"
    /\ Falsy(arg[c])
    /\ Issued(c, "scroll")
    /\ IF store.exists
       THEN /\ notes' = [notes EXCEPT ![c] = Scroll(store, Limit)]
            /\ result' = [result EXCEPT ![c] =
                    [k \in 1..Len(notes'[c]) |->
                        [text |-> notes'[c][k].payload.text, score |-> <<>>]]]
            /\ Return(c)
       ELSE /\ Raise(c, "StoreError")
            /\ UNCHANGED findLocals
    /\ UNCHANGED <<store, sessionVars, arg, bootGhosts, addGhosts>>

\* line 101: query_vector=get_embedding(text=query); the provider may fail
FindEmbed(c) ==
    /\ pc[c] = "find"
    /\ ~Falsy(arg[c])
    /\ \E ok \in BOOLEAN :
         IF ok
         THEN /\ Issued(c, "embed")
              /\ vector' = [vector EXCEPT ![c] = get_embedding(arg[c])]
              /\ pc' = [pc EXCEPT ![c] = "find_search"]
              /\ UNCHANGED <<ret, outcome, current_count>>
         ELSE /\ IssuedFailed(c, "embed")
              /\ Raise(c, "EmbeddingError")
    /\ UNCHANGED <<store, sessionVars, arg, findLocals, bootGhosts, addGhosts>>

\* lines 99-110: nearest-neighbour search, each result with the store's score
FindSearch(c) ==
    /\ pc[c] = "find_search"
    /\ Issued(c, "search")
    /\ IF store.exists
       THEN /\ notes' = [notes EXCEPT ![c] = Search(store, vector[c], Limit)]
            /\ result' = [result EXCEPT ![c] =
                    [k \in 1..Len(notes'[c]) |->
                        [text |-> notes'[c][k].payload.text,
                         score |-> <<notes'[c][k].score>>]]]
            /\ Return(c)
       ELSE /\ Raise(c, "StoreError")
            /\ UNCHANGED findLocals
    /\ UNCHANGED <<store, sessionVars, arg, bootGhosts, addGhosts>>

\* ------------------------------------------------------------ callers of the repository
QueryInputs == {None, ""} \cup NoteTexts

CallBootstrap(c) ==
    /\ pc[c] = "idle"
    /\ arg' = [arg EXCEPT ![c] = None]
    /\ Enter(c, "boot", "idle")
    /\ UNCHANGED <<store, sessionVars, addLocals, createCalls, bootRace, addGhosts>>

CallAdd(c, text) ==
    /\ pc[c] = "idle"
    /\ adds < MaxAdds
    /\ adds' = adds + 1
    /\ arg' = [arg EXCEPT ![c] = text]
    /\ Enter(c, "add_count", "idle")
    /\ UNCHANGED <<store, sessionVars, addLocals, createCalls, bootRace,
                   added, lastAdd, run>>

CallFind(c, query) ==
    /\ pc[c] = "idle"
    /\ arg' = [arg EXCEPT ![c] = query]
    /\ Enter(c, "find", "idle")
    /\ UNCHANGED <<store, sessionVars, addLocals, createCalls, bootRace, addGhosts>>

NextRepo ==
    \E c \in Clients :
        \/ CallBootstrap(c)
        \/ \E text \in NoteTexts : CallAdd(c, text)
        \/ \E query \in QueryInputs : CallFind(c, query)
        \/ BootCheck(c)
        \/ BootCreate(c)
        \/ AddCount(c)
        \/ AddEmbed(c)
        \/ AddUpsert(c)
        \/ FindScroll(c)
        \/ FindEmbed(c)
        \/ FindSearch(c)

SpecRepo == InitRepo /\ [][NextRepo]_vars

\* ------------------------------------------------------------ the script run
\* what the pure widget blocks leave alone
repoFrame == <<store, ret, arg, current_count, vector, notes, result, calls,
               sawExists, createCalls, bootRace, adds, added, lastAdd, run>>

\* lines 113-120: a key missing from st.session_state gets its default
Default(value, default) == IF value = Unset THEN default ELSE value

\* note_title is bound only by the recorder block (151) or the upload block (158)
TitleDefined(c) == note_audio[c] # None \/ uploaded_file[c] # None

\* A run starts on one user event: a new recording, an uploaded or removed file,
\* a click on a button the last run rendered, or a plain rerun.  Lines 113-123.
RunBegin(c) ==
    /\ pc[c] = "idle"
    /\ \E a \in Audio \cup {None}, u \in Audio \cup {None}, b \in rendered[c] \cup {None} :
         /\ \/ a = note_audio[c] /\ u = uploaded_file[c]
            \/ a # note_audio[c] /\ a # None /\ u = uploaded_file[c] /\ b = None
            \/ a = note_audio[c] /\ u # uploaded_file[c] /\ b = None
         /\ b = "save_text" => adds < MaxAdds
         /\ note_audio' = [note_audio EXCEPT ![c] = a]
         /\ uploaded_file' = [uploaded_file EXCEPT ![c] = u]
         /\ clicked' = [clicked EXCEPT ![c] = b]
    /\ rendered' = [rendered EXCEPT ![c] = {}]
    /\ note_audio_bytes_md5' = [note_audio_bytes_md5 EXCEPT ![c] = Default(@, None)]
    /\ note_audio_bytes' = [note_audio_bytes EXCEPT ![c] = Default(@, None)]
    /\ note_text' = [note_text EXCEPT ![c] = Default(@, "")]
    /\ note_audio_text' = [note_audio_text EXCEPT ![c] = Default(@, "")]
    /\ arg' = [arg EXCEPT ![c] = None]
    /\ Enter(c, "boot", "recorder")
    /\ UNCHANGED <<store, addLocals, createCalls, bootRace, addGhosts, transcribed, freshDraft>>

\* the text the recorder block leaves in note_text (line 145)
RecorderNoteText(c, changed) == IF changed THEN "" ELSE note_text[c]

\* the draft the recorder block leaves in note_audio_text (line 144)
RecorderDraft(c, changed) == IF changed THEN "" ELSE note_audio_text[c]

\* lines 138-151
RecorderBlock(c) ==
    /\ pc[c] = "recorder"
    /\ IF note_audio[c] # None
       THEN LET current_md5 == md5(note_audio[c])
                changed == note_audio_bytes_md5[c] # current_md5
            IN /\ note_audio_bytes' = [note_audio_bytes EXCEPT ![c] = note_audio[c]]
               /\ note_audio_text' = [note_audio_text EXCEPT ![c] = RecorderDraft(c, changed)]
               /\ note_text' = [note_text EXCEPT ![c] = RecorderNoteText(c, changed)]
               /\ note_audio_bytes_md5' = [note_audio_bytes_md5 EXCEPT ![c] = current_md5]
               /\ freshDraft' = [freshDraft EXCEPT ![c] = @ /\ ~changed]
       ELSE UNCHANGED <<note_audio_bytes, note_audio_text, note_text,
                        note_audio_bytes_md5, freshDraft>>
    /\ pc' = [pc EXCEPT ![c] = "upload"]
    /\ UNCHANGED <<repoFrame, outcome, note_audio, uploaded_file, clicked, rendered,
                   transcribed>>

\* lines 153-158
UploadBlock(c) ==
    /\ pc[c] = "upload"
    /\ note_audio_bytes' = [note_audio_bytes EXCEPT ![c] =
            IF uploaded_file[c] # None THEN uploaded_file[c] ELSE @]
    /\ pc' = [pc EXCEPT ![c] = "save_voice"]
    /\ UNCHANGED <<repoFrame, outcome, note_audio_bytes_md5, note_text, note_audio_text,
                   note_audio, uploaded_file, clicked, rendered, transcribed, freshDraft>>

SaveVoiceDraft_Kept(c, changed) == note_audio_text[c]

\* the draft the save-voice block leaves in note_audio_text (line 174)
SaveVoiceDraft(c, changed) == IF changed THEN "" ELSE note_audio_text[c]

\* lines 160-175
SaveVoiceBlock(c) ==
    /\ pc[c] = "save_voice"
    /\ rendered' = [rendered EXCEPT ![c] = @ \cup {"save_voice"}]
    /\ IF clicked[c] # "save_voice"
       THEN /\ pc' = [pc EXCEPT ![c] = "transcribe"]
            /\ UNCHANGED <<note_audio_text, note_audio_bytes_md5, freshDraft, outcome,
                           current_count, vector>>
       ELSE IF ~TitleDefined(c)
       THEN /\ Raise(c, "NameError")
            /\ UNCHANGED <<note_audio_text, note_audio_bytes_md5, freshDraft>>
       ELSE LET current_md5 == md5(note_audio_bytes[c])
                changed == note_audio_bytes_md5[c] # current_md5
            IN /\ note_audio_text' = [note_audio_text EXCEPT ![c] = SaveVoiceDraft(c, changed)]
               /\ note_audio_bytes_md5' = [note_audio_bytes_md5 EXCEPT ![c] = current_md5]
               /\ freshDraft' = [freshDraft EXCEPT ![c] = @ /\ ~changed]
               /\ pc' = [pc EXCEPT ![c] = "transcribe"]
               /\ UNCHANGED <<outcome, current_count, vector>>
    /\ UNCHANGED <<store, ret, arg, notes, result, calls, sawExists, createCalls,
                   bootRace, addGhosts, note_audio_bytes, note_text, note_audio,
                   uploaded_file, clicked, transcribed>>

\* what transcribe_audio can answer (lines 20-29): a text, possibly empty
Transcripts == NoteTexts \cup {""}

\* lines 177-178; the provider rejects a request without audio and may fail
TranscribeBlock(c) ==
    /\ pc[c] = "transcribe"
    /\ rendered' = [rendered EXCEPT ![c] = @ \cup {"transcribe"}]
    /\ IF clicked[c] # "transcribe"
       THEN /\ pc' = [pc EXCEPT ![c] = "text_area"]
            /\ UNCHANGED <<note_audio_text, transcribed, freshDraft, outcome,
                           current_count, vector>>
       ELSE \E t \in Transcripts \cup {None} :
              IF t = None \/ note_audio_bytes[c] = None
              THEN /\ Raise(c, "TranscriptionError")
                   /\ UNCHANGED <<note_audio_text, transcribed, freshDraft>>
              ELSE /\ note_audio_text' = [note_audio_text EXCEPT ![c] = t]
                   /\ transcribed' = [transcribed EXCEPT ![c] = @ \/ t # ""]
                   /\ freshDraft' = [freshDraft EXCEPT ![c] = TRUE]
                   /\ pc' = [pc EXCEPT ![c] = "text_area"]
                   /\ UNCHANGED <<outcome, current_count, vector>>
    /\ UNCHANGED <<store, ret, arg, notes, result, calls, sawExists, createCalls,
                   bootRace, addGhosts, note_audio_bytes_md5, note_audio_bytes, note_text,
                   note_audio, uploaded_file, clicked>>

\* lines 180-181: the text area shows the draft; the user may have edited it
TextAreaBlock(c) ==
    /\ pc[c] = "text_area"
    /\ IF note_audio_text[c] # ""
       THEN \E edited \in Transcripts \cup {note_audio_text[c]} :
              note_text' = [note_text EXCEPT ![c] = edited]
       ELSE UNCHANGED note_text
    /\ pc' = [pc EXCEPT ![c] = "save_text"]
    /\ UNCHANGED <<repoFrame, outcome, note_audio_bytes_md5, note_audio_bytes,
                   note_audio_text, note_audio, uploaded_file, clicked, rendered,
                   transcribed, freshDraft>>

SaveTextShown_Always(c) == TRUE

\* line 183, left operand: the save button exists only for a non-empty note_text
SaveTextShown(c) == note_text[c] # ""

\* lines 183-184: the button, and the call of add_note_to_db
SaveTextBlock(c) ==
    /\ pc[c] = "save_text"
    /\ rendered' = [rendered EXCEPT ![c] =
            IF SaveTextShown(c) THEN @ \cup {"save_text"} ELSE @]
    /\ IF SaveTextShown(c) /\ clicked[c] = "save_text"
       THEN /\ arg' = [arg EXCEPT ![c] = note_text[c]]
            /\ adds' = adds + 1
            /\ Enter(c, "add_count", "after_add")
       ELSE /\ pc' = [pc EXCEPT ![c] = "search"]
            /\ UNCHANGED <<arg, adds, ret, calls, sawExists, outcome, notes, result>>
    /\ UNCHANGED <<store, current_count, vector, createCalls, bootRace, added, lastAdd,
                   run, note_audio_bytes_md5, note_audio_bytes, note_text,
                   note_audio_text, note_audio, uploaded_file, clicked, transcribed,
                   freshDraft>>

\* lines 185-192: the download button's file name reads note_title
AfterAdd(c) ==
    /\ pc[c] = "after_add"
    /\ IF TitleDefined(c)
       THEN /\ pc' = [pc EXCEPT ![c] = "search"]
            /\ UNCHANGED <<outcome, current_count, vector>>
       ELSE Raise(c, "NameError")
    /\ UNCHANGED <<store, ret, arg, notes, result, calls, sawExists, createCalls,
                   bootRace, addGhosts, sessionVars>>

\* lines 196-198: the query box, the button, the call of list_notes_from_db
SearchBlock(c) ==
    /\ pc[c] = "search"
    /\ rendered' = [rendered EXCEPT ![c] = @ \cup {"search"}]
    /\ IF clicked[c] = "search"
       THEN \E query \in NoteTexts \cup {""} :
              /\ arg' = [arg EXCEPT ![c] = query]
              /\ Enter(c, "find", "render")
       ELSE /\ pc' = [pc EXCEPT ![c] = "idle"]
            /\ UNCHANGED <<arg, ret, calls, sawExists, outcome, notes, result>>
    /\ UNCHANGED <<store, current_count, vector, createCalls, bootRace, addGhosts,
                   note_audio_bytes_md5, note_audio_bytes, note_text, note_audio_text,
                   note_audio, uploaded_file, clicked, transcribed, freshDraft>>

\* lines 199-202: the results are written to the page; the run ends
Render(c) ==
    /\ pc[c] = "render"
    /\ pc' = [pc EXCEPT ![c] = "idle"]
    /\ UNCHANGED <<repoFrame, outcome, sessionVars>>

Next ==
    \E c \in Sessions :
        \/ RunBegin(c)
        \/ BootCheck(c)
        \/ BootCreate(c)
        \/ RecorderBlock(c)
        \/ UploadBlock(c)
        \/ SaveVoiceBlock(c)
        \/ TranscribeBlock(c)
        \/ TextAreaBlock(c)
        \/ SaveTextBlock(c)
        \/ AddCount(c)
        \/ AddEmbed(c)
        \/ AddUpsert(c)
        \/ AfterAdd(c)
        \/ SearchBlock(c)
        \/ FindScroll(c)
        \/ FindEmbed(c)
        \/ FindSearch(c)
        \/ Render(c)

Spec == Init /\ [][Next]_vars

\* ============================================================ properties
StoredAs(entry) ==
    /\ entry.id \in DOMAIN store.points
    /\ store.points[entry.id] = [vector |-> entry.vector, payload |-> [text |-> entry.text]]

\* a list result holds text t with score None
Contains(res, t) == \E k \in 1..Len(res) : res[k].text = t /\ res[k].score = <<>>

\* client c's call of list_notes_from_db has returned
FindReturned(c) == outcome[c] = "ok" /\ calls[c].exists = 0 /\ calls[c].count = 0

\* client c's call of assure_db_collection_exists has returned
BootReturned(c) == outcome[c] = "ok" /\ calls[c].exists = 1

\* C1, state part: bootstrap calls that do not overlap leave exactly one
\* create_collection call on the store, and a call that finds the collection
\* issues no create_collection and returns without error.
C1_State ==
    /\ ~bootRace => createCalls <= 1
    /\ \A c \in Clients :
         /\ (BootReturned(c) /\ ~bootRace) => (createCalls = 1 /\ store.exists)
         /\ sawExists[c] = "yes" => (calls[c].create = 0 /\ outcome[c] = "ok")

\* C1, step part: the call that finds the collection changes nothing in the store.
C1_Step ==
    \A c \in Clients :
        (pc[c] = "boot" /\ store.exists /\ pc'[c] # "boot")
            => (store' = store /\ createCalls' = createCalls)

C2_IdMonotonic ==
    \A c \in Clients :
        (~run[c].dirty /\ run[c].n >= 1) => lastAdd[c].id = run[c].base + run[c].n

\* C2 witness: two undisturbed adds into the collection of Preload points went
\* under ids Preload + 1 and then Preload + 2.
C2_Witness ==
    \E c \in Clients :
        /\ run[c] = [base |-> Preload, n |-> 2, dirty |-> FALSE]
        /\ lastAdd[c].id = Preload + 2
        /\ Count(store) = Preload + 2

\* the list step of client c, taken while the point of its last add is still stored
ListsAfterAdd(c) ==
    /\ pc[c] = "find"
    /\ Falsy(arg[c])
    /\ pc'[c] # "find"
    /\ lastAdd[c].id # 0
    /\ StoredAs(lastAdd[c])

\* C3 as stated: after a successful add_note(t), for any prior contents of the
\* collection, find_notes with an absent query returns a sequence that contains
\* a result with text t and score absent.
C3_Original ==
    [][\A c \in Clients : ListsAfterAdd(c) => Contains(result'[c], lastAdd[c].text)]_vars

\* C3 amended: the same, for a collection that holds at most 10 points when it
\* is listed.
C3_RoundTrip ==
    [][\A c \in Clients :
          (ListsAfterAdd(c) /\ Count(store) <= Limit)
              => Contains(result'[c], lastAdd[c].text)]_vars

\* C3 witness: a list call returned the text of the caller's earlier add.
C3_Witness ==
    \E c \in Clients :
        /\ FindReturned(c) /\ calls[c].scroll = 1
        /\ lastAdd[c].id # 0
        /\ Count(store) <= Limit
        /\ Contains(result[c], lastAdd[c].text)

\* C4: a note, once added, is immutable in the store: every point an earlier
\* add_note upserted is still stored under its id with its text and vector.
C4_Immutable == \A entry \in added : StoredAs(entry)

\* C5, state part: a call whose embedding request raised has ended with that
\* error after one request, and has issued no upsert and no search.
C5_State ==
    \A c \in Clients :
        calls[c].failed >= 1 =>
            /\ outcome[c] = "EmbeddingError"
            /\ pc[c] = "idle"
            /\ calls[c].embed = 1
            /\ calls[c].upsert = 0
            /\ calls[c].search = 0

\* C5, step part: the step in which the embedding request raises leaves the store as it is.
C5_Step ==
    \A c \in Clients : calls'[c].failed > calls[c].failed => store' = store

\* C5: provider failure propagation.  If the embedding provider raises, add_note
\* fails without an upsert and find_notes with a non-empty query fails without a
\* search; the error reaches the caller as raised, with no retry.
C5_FailurePropagates == [](C5_State) /\ [][C5_Step]_vars

\* C5 witness: one client's add and the other's search both ended on the
\* provider's error.
C5_Witness ==
    \E c, d \in Clients :
        /\ calls[c].failed = 1 /\ calls[c].count = 1 /\ outcome[c] = "EmbeddingError"
        /\ calls[d].failed = 1 /\ calls[d].count = 0 /\ outcome[d] = "EmbeddingError"
        /\ ~Falsy(arg[d])

\* C6: limit enforcement.  Whatever the number of stored notes, a list call and
\* a search call each return at most 10 results.
C6_LimitEnforced == \A c \in Clients : Len(result[c]) <= Limit

\* C6 witness: with more than 10 points stored, a list call and a search call
\* each returned 10 results.
C6_Witness ==
    /\ Count(store) > Limit
    /\ \E c, d \in Clients :
         /\ FindReturned(c) /\ calls[c].scroll = 1 /\ Len(result[c]) = Limit
         /\ FindReturned(d) /\ calls[d].search = 1 /\ Len(result[d]) = Limit

\* C7, state part: two clients whose adds read the same count built points of
\* the same id, count + 1.
C7_State ==
    \A c, d \in Clients :
        (lastAdd[c].id # 0 /\ lastAdd[d].id # 0 /\ lastAdd[c].count = lastAdd[d].count)
            => (lastAdd[c].id = lastAdd[d].id /\ lastAdd[c].id = lastAdd[c].count + 1)

\* C7, step part: the upsert puts the client's text under id count + 1, also
\* when a point is already stored there.
C7_Step ==
    \A c \in Clients :
        (pc[c] = "add_upsert" /\ pc'[c] # "add_upsert")
            => /\ current_count[c] + 1 \in DOMAIN store'.points
               /\ store'.points[current_count[c] + 1].payload.text = arg[c]

\* C7: count-then-insert race.  Two clients that read the same count before
\* either upserts both build a point of id count + 1 and upsert it under that id.
C7_SameCountSameId == [](C7_State) /\ [][C7_Step]_vars

\* C7 witness: the interleaving exists.  Both clients read count 0 of the new
\* collection, both upserted id 1 with different texts, one point is stored.
C7_Witness ==
    /\ lastAdd["c1"].id = 1 /\ lastAdd["c2"].id = 1
    /\ lastAdd["c1"].count = 0 /\ lastAdd["c2"].count = 0
    /\ lastAdd["c1"].text # lastAdd["c2"].text
    /\ Count(store) = 1

\* C8: query dispatch.  An absent or empty query: one scroll, no embedding, no
\* search, every score absent.  A non-empty query: the embedding first, then
\* one search and no scroll, every result with the store's score in the store's order.
C8_Dispatch ==
    \A c \in Clients :
        /\ pc[c] = "find_search" =>
              (calls[c].embed = 1 /\ calls[c].search = 0 /\ calls[c].scroll = 0)
        /\ FindReturned(c) =>
              IF arg[c] = None \/ arg[c] = ""
              THEN /\ calls[c].scroll = 1 /\ calls[c].embed = 0 /\ calls[c].search = 0
                   /\ \A k \in 1..Len(result[c]) : result[c][k].score = <<>>
              ELSE /\ calls[c].scroll = 0 /\ calls[c].embed = 1 /\ calls[c].search = 1
                   /\ Len(result[c]) = Len(notes[c])
                   /\ \A k \in 1..Len(result[c]) :
                        result[c][k] = [text |-> notes[c][k].payload.text,
                                        score |-> <<notes[c][k].score>>]

\* C8 witness: an empty query listed points, and a non-empty query got scored
\* results, the best first.
C8_Witness ==
    \E c, d \in Clients :
        /\ FindReturned(c) /\ arg[c] = "" /\ Len(result[c]) >= 1
        /\ FindReturned(d) /\ arg[d] \in NoteTexts /\ Len(result[d]) >= 2
        /\ result[d][1].score = <<1>>
        /\ result[d][2].score = <<0>>

\* C9: save gating.  add_note_to_db runs only with a non-empty note_text, and
\* only after a transcribe action of the session returned a non-empty transcript.
C9_SaveGated ==
    \A c \in Sessions :
        pc[c] \in {"add_count", "add_embed", "add_upsert"} =>
            (arg[c] \in NoteTexts /\ transcribed[c])

\* C9 witness: the session's add is about to upsert a text the user edited.
C9_Witness ==
    \E c \in Sessions :
        pc[c] = "add_upsert" /\ arg[c] = note_text[c] /\ arg[c] # note_audio_text[c]

\* C10, step part: a step that changes note_audio_bytes_md5 leaves
\* note_audio_text empty, and note_text too when it is the recorder block's.
C10_Step ==
    \A c \in Sessions :
        note_audio_bytes_md5'[c] # note_audio_bytes_md5[c] =>
            /\ note_audio_text'[c] = ""
            /\ pc[c] = "recorder" => note_text'[c] = ""

\* C10, state part: a non-empty draft was transcribed after the last change of
\* the fingerprint.
C10_State ==
    \A c \in Sessions : note_audio_text[c] \notin {"", Unset} => freshDraft[c]

\* C10: draft reset on audio change.
C10_DraftReset == [](C10_State) /\ [][C10_Step]_vars

\* C10 witness: after a transcription, a new recording changed the fingerprint;
\* the recorder block has left both texts empty.
C10_Witness ==
    \E c \in Sessions :
        /\ pc[c] = "upload"
        /\ transcribed[c] /\ ~freshDraft[c]
        /\ note_audio_bytes_md5[c] = md5(note_audio[c])
        /\ note_audio_text[c] = "" /\ note_text[c] = ""

====
